---------------------------- MODULE Spec2Model ----------------------------
(***************************************************************************)
(* A model of hydrox/data.py: link discovery, the per-athlete page parser, *)
(* the clock-text to seconds conversion, the per-record accessors and the  *)
(* cross-athlete aggregate views.                                          *)
(*                                                                         *)
(* Texts the code inspects character by character (time texts, split       *)
(* labels, URLs) are sequences of one-character atoms; texts it only       *)
(* concatenates (names, ordinals) are strings.  A pandas Series is a       *)
(* sequence of rows [idx |-> label, val |-> value]; its order is the row   *)
(* order.  A call's outcome is a record [err |-> "" or the exception's     *)
(* class, val |-> the returned value].                                     *)
(***************************************************************************)
EXTENDS Integers, Sequences, FiniteSets, TLC

VARIABLES
    urls,         \* Details.from_urls: the listing URLs given
    hrefs,        \* Details.from_urls: the athlete URLs discovered so far
    individuals,  \* Details.individuals (None entries included)
    pc,           \* where the running call is
    view,         \* the outcome of the last aggregate view
    page,         \* the tables pd.read_html yields for one athlete page
    record,       \* the outcome of IndividualDetails.from_url on page
    listing,      \* what a listing URL serves (from_urls: the listings read so far)
    served,       \* the athlete pages read so far by Details.from_urls
    out           \* the outcome of the last function or accessor call

vars == <<urls, hrefs, individuals, pc, view, page, record, listing, served, out>>

(***************************************************************************)
(* Outcomes                                                                *)
(***************************************************************************)
Ok(v) == [err |-> "", val |-> v]
Raise(e) == [err |-> e, val |-> <<>>]
NotCalled == [err |-> "not called", val |-> <<>>]

\* A Duration: an integer number of seconds, or NaN (the missing marker).
NaN == [nan |-> TRUE, v |-> 0]
Num(x) == [nan |-> FALSE, v |-> x]

Row(i, v) == [idx |-> i, val |-> v]

(***************************************************************************)
(* Sequence helpers                                                        *)
(***************************************************************************)
RECURSIVE SelectRows(_, _)
\* the rows of s at which mask is TRUE, in order (boolean-mask .loc)
SelectRows(s, mask) ==
    IF s = <<>> THEN <<>>
    ELSE (IF Head(mask) THEN <<Head(s)>> ELSE <<>>)
         \o SelectRows(Tail(s), Tail(mask))

IndexOf(s) == [i \in 1..Len(s) |-> s[i].idx]
ValuesOf(s) == [i \in 1..Len(s) |-> s[i].val]
IsUnique(ix) == \A i, j \in 1..Len(ix) : ix[i] = ix[j] => i = j
Range(s) == {s[i] : i \in 1..Len(s)}

(***************************************************************************)
(* Characters                                                              *)
(***************************************************************************)
Digits == <<"0", "1", "2", "3", "4", "5", "6", "7", "8", "9">>
IsDigit(c) == \E d \in 1..10 : Digits[d] = c
DigitVal(c) == (CHOOSE d \in 1..10 : Digits[d] = c) - 1

\* The en dash the results pages print for "no time"; "-" is the ASCII minus.
EnDash == "ndash"
Sentinel == <<EnDash>>

RECURSIVE SplitOn(_, _)
\* str.split(sep) for a one-character separator: the fields, empty ones kept
SplitOn(s, sep) ==
    IF \A i \in 1..Len(s) : s[i] # sep THEN <<s>>
    ELSE LET k == CHOOSE i \in 1..Len(s) :
                      s[i] = sep /\ \A j \in 1..(i - 1) : s[j] # sep
         IN  <<SubSeq(s, 1, k - 1)>> \o SplitOn(SubSeq(s, k + 1, Len(s)), sep)

RECURSIVE Strip(_)
\* str.strip() of blanks
Strip(s) ==
    IF s = <<>> THEN s
    ELSE IF Head(s) = " " THEN Strip(Tail(s))
    ELSE IF s[Len(s)] = " " THEN Strip(SubSeq(s, 1, Len(s) - 1))
    ELSE s

RECURSIVE DigitsValue(_, _)
\* the value of a digit group, underscores skipped, acc the value so far
DigitsValue(s, acc) ==
    IF s = <<>> THEN acc
    ELSE IF Head(s) = "_" THEN DigitsValue(Tail(s), acc)
    ELSE DigitsValue(Tail(s), 10 * acc + DigitVal(Head(s)))

\* Python's decimal integer literal: digits, single underscores between them
IsDigitGroup(s) ==
    /\ s # <<>>
    /\ IsDigit(s[1]) /\ IsDigit(s[Len(s)])
    /\ \A i \in 1..Len(s) : IsDigit(s[i]) \/ s[i] = "_"
    /\ \A i \in 1..(Len(s) - 1) : ~(s[i] = "_" /\ s[i + 1] = "_")

\* int() of a stripped text's digits, negated after a minus sign
PyIntSigned(negative, body) ==
    IF ~IsDigitGroup(body) THEN Raise("ValueError")
    ELSE IF negative THEN Ok(0 - DigitsValue(body, 0))
    ELSE Ok(DigitsValue(body, 0))

PyIntStripped(t) ==
    IF t # <<>> /\ Head(t) \in {"-", "+"} THEN PyIntSigned(Head(t) = "-", Tail(t))
    ELSE PyIntSigned(FALSE, t)

\* int(text) as numpy's astype(int) applies it to each object cell
PyInt(s) == PyIntStripped(Strip(s))

(***************************************************************************)
(* time_to_seconds                                                         *)
(***************************************************************************)
\* np.array([60 * 60, 60, 1])
multiplier == <<60 * 60, 60, 1>>

Max(S) == IF S = {} THEN 0 ELSE CHOOSE m \in S : \A x \in S : x <= m

\* the rows of fields padded with None to ncols columns
PadRows(parts, ncols) ==
    [i \in 1..Len(parts) |->
        [j \in 1..ncols |->
            IF j <= Len(parts[i]) THEN [none |-> FALSE, text |-> parts[i][j]]
            ELSE [none |-> TRUE, text |-> <<>>]]]

\* .str.split(":", expand=True): one row of fields per text, padded with None
\* to the longest row; no column at all when there is no row
StrSplitExpand(texts) ==
    PadRows([i \in 1..Len(texts) |-> SplitOn(texts[i], ":")],
            Max({Len(SplitOn(texts[i], ":")) : i \in 1..Len(texts)}))

NCols(frame) == IF frame = <<>> THEN 0 ELSE Len(frame[1])

\* int() of one cell: None is a TypeError
CellInt(c) == IF c.none THEN Raise("TypeError") ELSE PyInt(c.text)

\* the outcome of the first cell, row by row, that int() refuses, or the
\* frame of the values
FirstRefusal(cells) ==
    IF \E i \in 1..Len(cells) : \E j \in 1..NCols(cells) : cells[i][j].err # ""
    THEN LET first == CHOOSE p \in (1..Len(cells)) \X (1..NCols(cells)) :
                 /\ cells[p[1]][p[2]].err # ""
                 /\ \A i \in 1..Len(cells) : \A j \in 1..NCols(cells) :
                        cells[i][j].err # ""
                        => p[1] < i \/ (p[1] = i /\ p[2] <= j)
         IN  Raise(cells[first[1]][first[2]].err)
    ELSE Ok([i \in 1..Len(cells) |-> [j \in 1..NCols(cells) |-> cells[i][j].val]])

\* .astype(int)
AsTypeInt(frame) ==
    FirstRefusal([i \in 1..Len(frame) |->
                     [j \in 1..NCols(frame) |-> CellInt(frame[i][j])]])

\* split @ multiplier: DataFrame.dot refuses a frame whose width is not 3
MatMul(ints) ==
    IF NCols(ints) # Len(multiplier) THEN Raise("ValueError")
    ELSE Ok([i \in 1..Len(ints) |->
                ints[i][1] * multiplier[1] + ints[i][2] * multiplier[2]
                + ints[i][3] * multiplier[3]])

\* result.reindex(target): unchanged when the index is already the target;
\* refused when result's own index repeats a label; otherwise each target
\* label looks its value up, NaN where result has none
Reindex(result, target) ==
    IF IndexOf(result) = target THEN Ok(result)
    ELSE IF ~IsUnique(IndexOf(result)) THEN Raise("ValueError")
    ELSE Ok([i \in 1..Len(target) |->
                IF \E k \in 1..Len(result) : result[k].idx = target[i]
                THEN Row(target[i],
                         result[CHOOSE k \in 1..Len(result) :
                                    result[k].idx = target[i]].val)
                ELSE Row(target[i], NaN)])

\* times == "–"
null_rows(times) == [i \in 1..Len(times) |-> times[i].val = Sentinel]

\* times.loc[~null_rows].str.split(":", expand=True).astype(int), on the
\* rows kept
split(kept) == AsTypeInt(StrSplitExpand(ValuesOf(kept)))

\* split @ multiplier, carrying the index of the rows kept
result(sp, kept) ==
    IF sp.err # "" THEN sp
    ELSE IF MatMul(sp.val).err # "" THEN MatMul(sp.val)
    ELSE Ok([i \in 1..Len(kept) |-> Row(kept[i].idx, Num(MatMul(sp.val).val[i]))])

\* result.reindex(times.index)
Reindexed(res, times) ==
    IF res.err # "" THEN res ELSE Reindex(res.val, IndexOf(times))

SecondsOfKept(times, kept) == Reindexed(result(split(kept), kept), times)

time_to_seconds(times) ==
    SecondsOfKept(times,
                  SelectRows(times, [i \in 1..Len(times) |-> ~null_rows(times)[i]]))

(***************************************************************************)
(* IndividualDetails.from_url                                              *)
(*                                                                         *)
(* A page is what pd.read_html meets at one athlete URL:                   *)
(*   status    "ok", or "error" when the fetch or the extraction raises    *)
(*   ntables   the number of tables extracted (none at all also raises)    *)
(*   has_split, has_time   whether table 2 has a "Split" / "Time" column   *)
(*   name      the "Name" value of table 0                                 *)
(*   rank      the first value of column 1 of table 4                      *)
(*   rows      table 2, a sequence of [Split |-> label, Time |-> text]     *)
(***************************************************************************)
None == [none |-> TRUE]

\* dfs[2].set_index("Split")["Time"]
TimeColumn(rows) == [i \in 1..Len(rows) |-> Row(rows[i].Split, rows[i].Time)]

\* the frame with column "seconds" set to the values of aligned
WithSeconds(rows, aligned) ==
    IF aligned.err # "" THEN aligned
    ELSE Ok([i \in 1..Len(rows) |->
                [idx |-> rows[i].Split, Time |-> rows[i].Time,
                 seconds |-> aligned.val[i].val]])

\* workout_result["seconds"] = series: a series carrying the frame's own
\* index is stored as it is, any other is reindexed to the frame first
SetSeconds(rows, series) ==
    IF series.err # "" THEN series
    ELSE WithSeconds(rows, Reindex(series.val, [i \in 1..Len(rows) |-> rows[i].Split]))

\* cls(participant=..., workout_result=..., overall_time=..., ...)
Individual(p, frame) ==
    IF frame.err # "" THEN frame
    ELSE Ok([none |-> FALSE, name |-> p.name, rank |-> p.rank,
             workout_result |-> frame.val])

from_url(p) ==
    IF p.status # "ok" \/ p.ntables = 0 THEN Ok(None)
    ELSE IF p.ntables < 3 THEN Raise("IndexError")
    ELSE IF ~p.has_split THEN Raise("KeyError")
    ELSE IF p.ntables < 6 THEN Raise("IndexError")
    ELSE IF ~p.has_time THEN Raise("KeyError")
    ELSE Individual(p, SetSeconds(p.rows, time_to_seconds(TimeColumn(p.rows))))

(***************************************************************************)
(* ordinal and the accessors of one record                                 *)
(***************************************************************************)
RECURSIVE Str(_)
\* str(n) for n >= 0
Str(n) == IF n < 10 THEN Digits[n + 1] ELSE Str(n \div 10) \o Digits[(n % 10) + 1]

Min(a, b) == IF a <= b THEN a ELSE b

ordinal_no_teens(n) == Str(n) \o <<"th", "st", "nd", "rd", "th">>[Min(n % 10, 4) + 1]

ordinal(n) ==
    LET suffix == IF 11 <= (n % 100) /\ (n % 100) <= 13 THEN "th"
                  ELSE <<"th", "st", "nd", "rd", "th">>[Min(n % 10, 4) + 1]
    IN  Str(n) \o suffix

get_rank(self) == self.rank

get_name(self, with_rank) ==
    IF with_rank THEN (ordinal(get_rank(self)) \o " ") \o self.name
    ELSE self.name

SecondsColumn(df) == [i \in 1..Len(df) |-> Row(df[i].idx, df[i].seconds)]

get_exercises(self) == SecondsColumn(self.workout_result)

Running == <<"R", "u", "n", "n", "i", "n", "g">>

\* str.contains(pat) for a pattern without regex metacharacters
Contains(s, pat) ==
    \E k \in 0..(Len(s) - Len(pat)) : SubSeq(s, k + 1, k + Len(pat)) = pat

StartsWith(s, pat) == Len(pat) <= Len(s) /\ SubSeq(s, 1, Len(pat)) = pat

filter_running_prefix(df) ==
    SelectRows(df, [i \in 1..Len(df) |-> StartsWith(df[i].idx, <<"R", "u", "n">>)])

filter_running(df) ==
    SelectRows(df, [i \in 1..Len(df) |-> Contains(df[i].idx, Running)])

\* ser.index = range(1, len(ser) + 1)
Renumbered(ser) == [i \in 1..Len(ser) |-> Row(i, ser[i].seconds)]

get_runs(self) == Renumbered(filter_running(self.workout_result))

\* seq[1:-2:2], positions counted from 1 here: the even positions up to
\* the third from the end
SliceOddToLastTwo(s) ==
    LET n == (IF Len(s) >= 2 THEN Len(s) - 2 ELSE 0) \div 2
    IN  [k \in 1..n |-> s[2 * k]]

get_other_exercises(self) == SecondsColumn(SliceOddToLastTwo(self.workout_result))

(***************************************************************************)
(* Details: the aggregate views                                            *)
(***************************************************************************)
RECURSIVE Unique(_, _)
\* the labels of s not in seen, each once, in order of first appearance
Unique(s, seen) ==
    IF s = <<>> THEN <<>>
    ELSE IF Head(s) \in seen THEN Unique(Tail(s), seen)
    ELSE <<Head(s)>> \o Unique(Tail(s), seen \cup {Head(s)})

RECURSIVE Flatten(_)
Flatten(ss) == IF ss = <<>> THEN <<>> ELSE Head(ss) \o Flatten(Tail(ss))

Lookup(ser, label) ==
    IF \E k \in 1..Len(ser) : ser[k].idx = label
    THEN ser[CHOOSE k \in 1..Len(ser) : ser[k].idx = label].val
    ELSE NaN

\* the frame of sers reindexed to index
Joined(sers, names, index) ==
    Ok([index |-> index, columns |-> names,
        data |-> [i \in 1..Len(index) |->
                     [j \in 1..Len(sers) |-> Lookup(sers[j], index[i])]]])

ConcatFirstIndexOnly(sers, names) ==
    IF sers = <<>> THEN Raise("ValueError")
    ELSE Joined(sers, names, IndexOf(sers[1]))

\* pd.concat(sers, axis=1), each series renamed to its entry of names: the
\* index is the first series' index when all indexes are equal, else the union
\* in order of first appearance, which a series with a repeated label
\* cannot be reindexed to
Concat(sers, names) ==
    IF sers = <<>> THEN Raise("ValueError")
    ELSE IF \A j \in 1..Len(sers) : IndexOf(sers[j]) = IndexOf(sers[1])
    THEN Ok([index |-> IndexOf(sers[1]), columns |-> names,
             data |-> [i \in 1..Len(sers[1]) |->
                          [j \in 1..Len(sers) |-> sers[j][i].val]]])
    ELSE IF \E j \in 1..Len(sers) : ~IsUnique(IndexOf(sers[j]))
    THEN Raise("InvalidIndexError")
    ELSE Joined(sers, names,
                Unique(Flatten([j \in 1..Len(sers) |-> IndexOf(sers[j])]), {}))

\* DataFrame.T
Transpose(t) ==
    IF t.err # "" THEN t
    ELSE Ok([index |-> t.val.columns, columns |-> t.val.index,
             data |-> [i \in 1..Len(t.val.columns) |->
                          [j \in 1..Len(t.val.index) |-> t.val.data[j][i]]]])

\* the comprehension of a view: calling a method of None is an AttributeError
HasNone(inds) == \E i \in 1..Len(inds) : inds[i] = None

Names(inds, with_rank) == [i \in 1..Len(inds) |-> get_name(inds[i], with_rank)]

Details_get_exercises(inds, with_rank) ==
    IF HasNone(inds) THEN Raise("AttributeError")
    ELSE Transpose(Concat([i \in 1..Len(inds) |-> get_exercises(inds[i])],
                          Names(inds, with_rank)))

Details_get_runs(inds, with_rank) ==
    IF HasNone(inds) THEN Raise("AttributeError")
    ELSE Concat([i \in 1..Len(inds) |-> get_runs(inds[i])], Names(inds, with_rank))

Details_get_other_exercises(inds, with_rank) ==
    IF HasNone(inds) THEN Raise("AttributeError")
    ELSE Concat([i \in 1..Len(inds) |-> get_other_exercises(inds[i])],
                Names(inds, with_rank))

(***************************************************************************)
(* Link discovery                                                          *)
(*                                                                         *)
(* The html of a listing is what requests.get and BeautifulSoup meet:      *)
(*   status   "ok", or "error" when the fetch raises                       *)
(*   has_div  whether the results container is on the page                 *)
(*   items    its <li> items in document order, each                       *)
(*            [a |-> has an anchor, has_href |-> ..., href |-> text]       *)
(***************************************************************************)
IndexPhp == <<"i", "n", "d", "e", "x", ".", "p", "h", "p">>

EndsWith(s, suffix) ==
    Len(suffix) <= Len(s) /\ SubSeq(s, Len(s) - Len(suffix) + 1, Len(s)) = suffix

get_base_url(url) ==
    LET base_url == SplitOn(url, "?")[1]
    IN  IF ~EndsWith(base_url, IndexPhp) THEN base_url \o IndexPhp ELSE base_url

\* f"{None}"
NoneText == <<"N", "o", "n", "e">>

get_all_hrefs(url, html) ==
    IF html.status # "ok" THEN Raise("ConnectionError")
    ELSE IF ~html.has_div THEN Raise("AttributeError")
    ELSE IF \E i \in 1..Len(html.items) :
                html.items[i].a /\ ~html.items[i].has_href
    THEN Raise("KeyError")
    ELSE Ok([i \in 1..Len(html.items) |->
                get_base_url(url)
                \o (IF html.items[i].a THEN html.items[i].href ELSE NoneText)])


(***************************************************************************)
(* Inputs                                                                  *)
(***************************************************************************)
SeqsUpTo(S, n) == UNION {[1..k -> S] : k \in 0..n}

RECURSIVE Join(_, _)
\* sep.join(fields)
Join(fields, sep) ==
    IF Len(fields) = 1 THEN fields[1]
    ELSE (fields[1] \o <<sep>>) \o Join(Tail(fields), sep)

Roxzone == <<"R", "o", "x", "z", "o", "n", "e", " ", "T", "i", "m", "e">>
Running1 == <<"R", "u", "n", "n", "i", "n", "g", " ", "1">>
SkiErg == <<"S", "k", "i", "E", "r", "g">>
RunTotal == <<"R", "u", "n", " ", "T", "o", "t", "a", "l">>

T_0_00_07 == <<"0", ":", "0", "0", ":", "0", "7">>
T_0_01_00 == <<"0", ":", "0", "1", ":", "0", "0">>

OkPage(name, rank, rows) ==
    [status |-> "ok", ntables |-> 6, has_split |-> TRUE, has_time |-> TRUE,
     name |-> name, rank |-> rank, rows |-> rows]

Idle == <<>>
NoView == [call |-> "none", with_rank |-> FALSE, err |-> "", val |-> <<>>]
View(call, with_rank, res) ==
    [call |-> call, with_rank |-> with_rank, err |-> res.err, val |-> res.val]

(***************************************************************************)
(* SpecCodec: time_to_seconds and from_url over one workout-result block   *)
(***************************************************************************)
MaxFields == 4
MaxCodecRows == 2

\* the fields a time text is made of: two numbers, a negative number and a
\* word
CodecFields == {<<"0", "7">>, <<"5", "9">>, <<"-", "1">>, <<"a", "b">>}
\* every text of three fields, the texts of one to MaxFields numeric fields,
\* and the sentinel
CodecTexts ==
    {Join(fs, ":") : fs \in [1..Len(multiplier) -> CodecFields]}
    \cup {Join([j \in 1..k |-> <<"0", "7">>], ":") : k \in 1..MaxFields}
    \cup {Sentinel}
CodecBlocks ==
    SeqsUpTo([Split : {Roxzone, Running1}, Time : CodecTexts], MaxCodecRows)

InitCodec ==
    /\ page \in {OkPage("Ann", 1, rows) : rows \in CodecBlocks}
    /\ record = NotCalled
    /\ out = NotCalled
    /\ pc = "start"
    /\ urls = Idle /\ hrefs = Idle /\ individuals = Idle /\ view = NoView
    /\ listing = Idle /\ served = Idle

\* time_to_seconds(workout_result["Time"])
TimeToSeconds ==
    /\ pc = "start"
    /\ out' = time_to_seconds(TimeColumn(page.rows))
    /\ pc' = "time_to_seconds"
    /\ UNCHANGED <<urls, hrefs, individuals, view, page, record, listing, served>>

\* IndividualDetails.from_url(url), the URL serving page
FromUrl ==
    /\ pc = "start"
    /\ record' = from_url(page)
    /\ pc' = "from_url"
    /\ UNCHANGED <<urls, hrefs, individuals, view, page, listing, served, out>>

NextCodec == TimeToSeconds \/ FromUrl

SpecCodec == InitCodec /\ [][NextCodec]_vars

(***************************************************************************)
(* What the specification says of a time text, stated without the code     *)
(***************************************************************************)
\* H:MM:SS or HH:MM:SS, all digits, minutes and seconds below 60
IsClock(t) ==
    /\ Len(t) \in {7, 8}
    /\ LET h == Len(t) - 6
       IN  /\ \A i \in 1..Len(t) :
                  IF i \in {h + 1, h + 4} THEN t[i] = ":" ELSE IsDigit(t[i])
           /\ DigitVal(t[h + 2]) < 6
           /\ DigitVal(t[h + 5]) < 6

\* hours * 3600 + minutes * 60 + seconds of a clock text
ClockSeconds(t) ==
    LET h == Len(t) - 6
        hours == IF h = 1 THEN DigitVal(t[1]) ELSE 10 * DigitVal(t[1]) + DigitVal(t[2])
        minutes == 10 * DigitVal(t[h + 2]) + DigitVal(t[h + 3])
        seconds == 10 * DigitVal(t[h + 5]) + DigitVal(t[h + 6])
    IN  hours * 3600 + minutes * 60 + seconds

\* a field that reads as an integer: digits, with or without a minus sign
IsIntegerField(f) ==
    /\ f # <<>>
    /\ LET body == IF Head(f) = "-" THEN Tail(f) ELSE f
       IN  body # <<>> /\ \A i \in 1..Len(body) : IsDigit(body[i])

\* a text, not the sentinel, with a non-integer field or not three fields
IsMalformed(t) ==
    /\ t # Sentinel
    /\ \/ Len(SplitOn(t, ":")) # 3
       \/ \E j \in 1..Len(SplitOn(t, ":")) : ~IsIntegerField(SplitOn(t, ":")[j])

Texts == [i \in 1..Len(page.rows) |-> page.rows[i].Time]
Labels == [i \in 1..Len(page.rows) |-> page.rows[i].Split]

\* the Duration of one text taken alone
DurationOf(t) ==
    IF t = Sentinel THEN NaN ELSE time_to_seconds(<<Row(1, t)>>).val[1].val

(***************************************************************************)
(* C3  TimeCodec value.  A batch of distinctly labelled texts, each either *)
(* a clock text H:MM:SS or the sentinel, converts without an error: a      *)
(* clock text to hours*3600 + minutes*60 + seconds at its position, the    *)
(* sentinel to the missing marker, also when every text is the sentinel.   *)
(***************************************************************************)
C3_TimeCodecValue ==
    (/\ pc = "time_to_seconds"
     /\ Len(Texts) >= 1
     /\ IsUnique(Labels)
     /\ \A i \in 1..Len(Texts) : Texts[i] = Sentinel \/ IsClock(Texts[i]))
    => /\ out.err = ""
       /\ Len(out.val) = Len(Texts)
       /\ \A i \in 1..Len(Texts) :
              out.val[i].val = IF Texts[i] = Sentinel THEN NaN
                               ELSE Num(ClockSeconds(Texts[i]))

(***************************************************************************)
(* C4  TimeCodec rejection.  A batch holding a malformed text (a           *)
(* non-integer field, or a field count other than three) fails with an     *)
(* error, and every Duration a call returns is non-negative.               *)
(***************************************************************************)
C4_TimeCodecRejects ==
    pc = "time_to_seconds"
    => /\ (\E i \in 1..Len(Texts) : IsMalformed(Texts[i])) => out.err # ""
       /\ out.err = ""
          => \A i \in 1..Len(out.val) : out.val[i].val.nan \/ out.val[i].val.v >= 0

(***************************************************************************)
(* C5  Row-order preservation.  For every block of clock texts and         *)
(* sentinels the parser accepts, labels repeated or not, the seconds       *)
(* column is as long as the block and its entry i is the Duration of the   *)
(* time text of row i.                                                     *)
(***************************************************************************)
C5_RowOrderPreserved ==
    (/\ pc = "from_url" /\ record.err = "" /\ record.val # None
     /\ \A i \in 1..Len(Texts) : Texts[i] = Sentinel \/ IsClock(Texts[i]))
    => /\ Len(record.val.workout_result) = Len(page.rows)
       /\ \A i \in 1..Len(page.rows) :
              /\ record.val.workout_result[i].idx = page.rows[i].Split
              /\ record.val.workout_result[i].seconds = DurationOf(page.rows[i].Time)

(***************************************************************************)
(* SpecRecord: the accessors of one parsed record                          *)
(***************************************************************************)
MaxRecRows == 4

RecordBlocks ==
    SeqsUpTo([Split : {Roxzone, Running1, SkiErg, RunTotal},
              Time : {T_0_00_07, T_0_01_00}], MaxRecRows)

InitRecord ==
    /\ page \in {OkPage("Ann", 1, rows) : rows \in RecordBlocks}
    /\ record = from_url(page)
    /\ record.err = ""
    /\ out = NotCalled
    /\ pc = "start"
    /\ urls = Idle /\ hrefs = Idle /\ individuals = Idle /\ view = NoView
    /\ listing = Idle /\ served = Idle

GetExercises ==
    /\ pc = "start"
    /\ out' = Ok(get_exercises(record.val))
    /\ pc' = "get_exercises"
    /\ UNCHANGED <<urls, hrefs, individuals, view, page, record, listing, served>>

GetRuns ==
    /\ pc = "start"
    /\ out' = Ok(get_runs(record.val))
    /\ pc' = "get_runs"
    /\ UNCHANGED <<urls, hrefs, individuals, view, page, record, listing, served>>

GetOtherExercises ==
    /\ pc = "start"
    /\ out' = Ok(get_other_exercises(record.val))
    /\ pc' = "get_other_exercises"
    /\ UNCHANGED <<urls, hrefs, individuals, view, page, record, listing, served>>

NextRecord == GetExercises \/ GetRuns \/ GetOtherExercises

SpecRecord == InitRecord /\ [][NextRecord]_vars

(***************************************************************************)
(* SpecOrdinal: ordinal and get_name over the ranks                        *)
(***************************************************************************)
MaxRank == 125

InitOrdinal ==
    /\ page \in {OkPage(name, rank, <<[Split |-> Roxzone, Time |-> T_0_00_07]>>) :
                    name \in {"Ann", "Bob"}, rank \in 1..MaxRank}
    /\ record = from_url(page)
    /\ out = NotCalled
    /\ pc = "start"
    /\ urls = Idle /\ hrefs = Idle /\ individuals = Idle /\ view = NoView
    /\ listing = Idle /\ served = Idle

Ordinal ==
    /\ pc = "start"
    /\ out' = Ok(ordinal(get_rank(record.val)))
    /\ pc' = "ordinal"
    /\ UNCHANGED <<urls, hrefs, individuals, view, page, record, listing, served>>

GetName ==
    /\ pc = "start"
    /\ \E with_rank \in BOOLEAN :
           /\ out' = Ok(get_name(record.val, with_rank))
           /\ pc' = IF with_rank THEN "get_name_with_rank" ELSE "get_name"
    /\ UNCHANGED <<urls, hrefs, individuals, view, page, record, listing, served>>

NextOrdinal == Ordinal \/ GetName

SpecOrdinal == InitOrdinal /\ [][NextOrdinal]_vars

(***************************************************************************)
(* The aggregate views of a Details                                        *)
(***************************************************************************)
DetailsGetExercises ==
    /\ pc = "built"
    /\ \E with_rank \in BOOLEAN :
           view' = View("get_exercises", with_rank,
                        Details_get_exercises(individuals, with_rank))
    /\ UNCHANGED <<urls, hrefs, individuals, pc, page, record, listing, served, out>>

DetailsGetRuns ==
    /\ pc = "built"
    /\ \E with_rank \in BOOLEAN :
           view' = View("get_runs", with_rank,
                        Details_get_runs(individuals, with_rank))
    /\ UNCHANGED <<urls, hrefs, individuals, pc, page, record, listing, served, out>>

DetailsGetOtherExercises ==
    /\ pc = "built"
    /\ \E with_rank \in BOOLEAN :
           view' = View("get_other_exercises", with_rank,
                        Details_get_other_exercises(individuals, with_rank))
    /\ UNCHANGED <<urls, hrefs, individuals, pc, page, record, listing, served, out>>

(***************************************************************************)
(* SpecViews: the views over a Details of up to MaxAthletes entries        *)
(***************************************************************************)
MaxAthletes == 2
MaxViewRows == 2

\* the blocks of one athlete: rows of a run and of an exercise, in any order
\* and number up to MaxViewRows, timed run_time and exercise_time
ViewBlocks(run_time, exercise_time) ==
    SeqsUpTo({[Split |-> Running1, Time |-> run_time],
              [Split |-> SkiErg, Time |-> exercise_time]}, MaxViewRows) \ {<<>>}

ViewPages ==
    {OkPage("Ann", 1, rows) : rows \in ViewBlocks(T_0_00_07, T_0_01_00)}
    \cup {OkPage("Bob", 2, rows) : rows \in ViewBlocks(T_0_01_00, T_0_00_07)}

\* what from_url leaves in Details.individuals: None or a record
ViewEntries == {None} \cup {from_url(p).val : p \in ViewPages}

InitViews ==
    /\ individuals \in SeqsUpTo(ViewEntries, MaxAthletes) \ {<<>>}
    /\ pc = "built"
    /\ view = NoView
    /\ urls = Idle /\ hrefs = Idle /\ page = Idle /\ record = NotCalled
    /\ listing = Idle /\ served = Idle /\ out = NotCalled

NextViews == DetailsGetExercises \/ DetailsGetRuns \/ DetailsGetOtherExercises

SpecViews == InitViews /\ [][NextViews]_vars

(***************************************************************************)
(* Claims on the accessors of one record (SpecRecord)                      *)
(***************************************************************************)
\* the label has the letters of "Running" somewhere in it
HasRunning(label) ==
    \E k \in 1..Len(label) :
        \A j \in 1..Len(Running) :
            k + j - 1 <= Len(label) /\ label[k + j - 1] = Running[j]

\* the rows of a workout table at which mask holds, as a seconds series
Keep(rows, mask) ==
    LET sel == SelectRows(rows, mask)
    IN  [i \in 1..Len(sel) |-> Row(sel[i].idx, sel[i].seconds)]

RunningMask(rows) == [i \in 1..Len(rows) |-> HasRunning(rows[i].idx)]

IsOther(label) == label # Roxzone /\ ~HasRunning(label)
OtherMask(rows) == [i \in 1..Len(rows) |-> IsOther(rows[i].idx)]

\* Roxzone first, then Running rows alternating with exercise rows
IsSpecLayout(rows) ==
    /\ Len(rows) >= 2
    /\ rows[1].idx = Roxzone
    /\ \A i \in 2..Len(rows) :
           IF i % 2 = 0 THEN HasRunning(rows[i].idx) ELSE IsOther(rows[i].idx)

(***************************************************************************)
(* C7  Other-exercises selection.  For a record laid out as the            *)
(* specification describes, Roxzone first and then run rows alternating    *)
(* with exercise rows, get_other_exercises returns exactly the workout     *)
(* rows that are neither the "Roxzone Time" row nor a Running row, in      *)
(* original order, so it holds no Running row and no row of get_runs.      *)
(***************************************************************************)
C7_OtherExercises ==
    (pc = "get_other_exercises" /\ IsSpecLayout(record.val.workout_result))
    => /\ out.val = Keep(record.val.workout_result,
                         OtherMask(record.val.workout_result))
       /\ \A i \in 1..Len(out.val) : ~HasRunning(out.val[i].idx)
       /\ \A i \in 1..Len(out.val) :
              \A k \in 1..Len(get_runs(record.val)) :
                  out.val[i].val # get_runs(record.val)[k].val
                  \/ out.val[i].idx # Running1

(***************************************************************************)
(* C8  Running-row count.  get_runs has one entry per workout row whose    *)
(* label contains "Running", however many there are; the entries carry     *)
(* those rows' seconds in original row order and are indexed 1..K.         *)
(***************************************************************************)
C8_RunningRows ==
    pc = "get_runs"
    => LET runs == Keep(record.val.workout_result, RunningMask(record.val.workout_result))
       IN  /\ Len(out.val) = Cardinality({i \in 1..Len(record.val.workout_result) :
                                  HasRunning(record.val.workout_result[i].idx)})
           /\ Len(out.val) = Len(runs)
           /\ \A k \in 1..Len(runs) :
                  out.val[k].idx = k /\ out.val[k].val = runs[k].val

\* two runs with different times, in a block that also has other rows
C8_Witness ==
    /\ pc = "get_runs"
    /\ Len(out.val) = 2
    /\ out.val[1].val = Num(60) /\ out.val[2].val = Num(7)
    /\ Len(record.val.workout_result) = 4
    /\ record.val.workout_result[1].idx = Roxzone
    /\ record.val.workout_result[3].idx = RunTotal

(***************************************************************************)
(* Claims on ordinal and get_name (SpecOrdinal)                            *)
(***************************************************************************)
\* the suffix the rule gives: th for 11, 12, 13 in the last two digits,
\* else st, nd, rd for a last digit of 1, 2, 3, else th
RuleSuffix(n) ==
    IF n % 100 \in {11, 12, 13} THEN "th"
    ELSE CASE n % 10 = 1 -> "st"
           [] n % 10 = 2 -> "nd"
           [] n % 10 = 3 -> "rd"
           [] OTHER -> "th"

Examples ==
    {<<1, "1st">>, <<2, "2nd">>, <<3, "3rd">>, <<4, "4th">>, <<10, "10th">>,
     <<11, "11th">>, <<12, "12th">>, <<13, "13th">>, <<21, "21st">>,
     <<111, "111th">>}

(***************************************************************************)
(* C10  Ordinal formatting.  ordinal(n) is the decimal text of n followed  *)
(* by the suffix of the rule, as in 1st, 2nd, 3rd, 4th, 10th, 11th, 12th,  *)
(* 13th, 21st, 111th; get_name(with_rank=True) is the ordinal of the rank, *)
(* a space and the participant name.                                       *)
(***************************************************************************)
C10_Ordinal ==
    /\ pc = "ordinal"
       => /\ out.val = ToString(page.rank) \o RuleSuffix(page.rank)
          /\ \A e \in Examples : page.rank = e[1] => out.val = e[2]
    /\ pc = "get_name_with_rank"
       => out.val = ((ToString(page.rank) \o RuleSuffix(page.rank)) \o " ")
                    \o page.name
    /\ pc = "get_name" => out.val = page.name

C10_Witness ==
    pc = "get_name_with_rank" /\ page.rank = 111 /\ out.val = "111th Ann"

(***************************************************************************)
(* Claims on the aggregate views (SpecViews)                               *)
(***************************************************************************)
LabelsOf(ind) == [i \in 1..Len(ind.workout_result) |-> ind.workout_result[i].idx]

\* athlete i's seconds at a label it has once
OwnSeconds(ind, label) ==
    ind.workout_result[CHOOSE k \in 1..Len(ind.workout_result) :
                           ind.workout_result[k].idx = label].seconds

(***************************************************************************)
(* C9  Aggregation outer-join.  Over usable athletes, each with a set of   *)
(* distinct exercise labels, Details.get_exercises returns a table with    *)
(* one row per athlete in order, named by its display label (two athletes  *)
(* may share it), and one column per label of the union of the label sets; *)
(* a cell holds the athlete's own seconds when the athlete has the label   *)
(* and is missing otherwise.                                               *)
(***************************************************************************)
C9_OuterJoin ==
    (/\ view.call = "get_exercises"
     /\ ~HasNone(individuals)
     /\ \A i \in 1..Len(individuals) : IsUnique(LabelsOf(individuals[i])))
    => /\ view.err = ""
       /\ Len(view.val.index) = Len(individuals)
       /\ \A i \in 1..Len(individuals) :
              view.val.index[i] = get_name(individuals[i], view.with_rank)
       /\ IsUnique(view.val.columns)
       /\ Range(view.val.columns)
              = UNION {Range(LabelsOf(individuals[i])) : i \in 1..Len(individuals)}
       /\ \A i \in 1..Len(individuals) : \A c \in 1..Len(view.val.columns) :
              view.val.data[i][c]
                  = IF view.val.columns[c] \in Range(LabelsOf(individuals[i]))
                    THEN OwnSeconds(individuals[i], view.val.columns[c])
                    ELSE NaN

\* two athletes with one display label and different label sets
C9_Witness ==
    /\ view.call = "get_exercises" /\ view.err = ""
    /\ Len(individuals) = 2
    /\ ~HasNone(individuals)
    /\ view.val.index[1] = view.val.index[2]
    /\ LabelsOf(individuals[1]) = <<SkiErg>>
    /\ LabelsOf(individuals[2]) = <<Running1, SkiErg>>
    /\ view.val.columns = <<SkiErg, Running1>>
    /\ view.val.data[1] = <<Num(60), NaN>>
    /\ view.val.data[2] = <<Num(60), Num(7)>>

(***************************************************************************)
(* SpecLinks: get_all_hrefs over one listing page                          *)
(***************************************************************************)
MaxItems == 3

\* h/index.php?e=1, h/index.php, h/ and h/?a?b
ListingUrls ==
    {<<"h", "/">> \o IndexPhp \o <<"?", "e", "=", "1">>,
     <<"h", "/">> \o IndexPhp,
     <<"h", "/">>,
     <<"h", "/", "?", "a", "?", "b">>}

\* an item without an anchor, one whose anchor has no href, and two links
Items ==
    {[a |-> FALSE, has_href |-> FALSE, href |-> <<>>],
     [a |-> TRUE, has_href |-> FALSE, href |-> <<>>],
     [a |-> TRUE, has_href |-> TRUE, href |-> <<"?", "A">>],
     [a |-> TRUE, has_href |-> TRUE, href |-> <<"?", "B">>]}

Htmls(n) ==
    {[status |-> "error", has_div |-> FALSE, items |-> <<>>],
     [status |-> "ok", has_div |-> FALSE, items |-> <<>>]}
    \cup {[status |-> "ok", has_div |-> TRUE, items |-> its] : its \in SeqsUpTo(Items, n)}

InitLinks ==
    /\ urls \in {<<u>> : u \in ListingUrls}
    /\ listing \in Htmls(MaxItems)
    /\ out = NotCalled
    /\ pc = "start"
    /\ hrefs = Idle /\ individuals = Idle /\ view = NoView
    /\ page = Idle /\ record = NotCalled /\ served = Idle

GetAllHrefs ==
    /\ pc = "start"
    /\ out' = get_all_hrefs(urls[1], listing)
    /\ pc' = "get_all_hrefs"
    /\ UNCHANGED <<urls, hrefs, individuals, view, page, record, listing, served>>

NextLinks == GetAllHrefs

SpecLinks == InitLinks /\ [][NextLinks]_vars

(***************************************************************************)
(* C6  Link discovery.  get_all_hrefs returns one URL per list item whose  *)
(* anchor has an href, in document order, each the concatenation of        *)
(* get_base_url(url) and the href; an item with no anchor or no href adds  *)
(* no element and causes no error.                                         *)
(***************************************************************************)
C6_LinkDiscovery ==
    (pc = "get_all_hrefs" /\ listing.status = "ok" /\ listing.has_div)
    => LET linked == SelectRows(listing.items,
                         [i \in 1..Len(listing.items) |->
                             listing.items[i].a /\ listing.items[i].has_href])
       IN  /\ out.err = ""
           /\ out.val = [i \in 1..Len(linked) |->
                            get_base_url(urls[1]) \o linked[i].href]

(***************************************************************************)
(* Spec: Details.from_urls, then the views of the Details it built         *)
(***************************************************************************)
MaxUrls == 2
MaxListed == 2

BatchUrls ==
    {<<"h", "/">> \o IndexPhp \o <<"?", "e", "=", "1">>, <<"h", "/">>}

\* the athlete pages a URL may serve: a failed fetch, five tables, no
\* "Split" column, no "Time" column, a malformed time text, and two pages
\* that parse
BatchPages ==
    LET good == OkPage("Ann", 1, <<[Split |-> Running1, Time |-> T_0_00_07],
                                   [Split |-> SkiErg, Time |-> T_0_01_00]>>)
    IN  {[good EXCEPT !.status = "error"],
         [good EXCEPT !.ntables = 5],
         [good EXCEPT !.has_split = FALSE],
         [good EXCEPT !.has_time = FALSE],
         [good EXCEPT !.rows = <<[Split |-> SkiErg, Time |-> <<"1", "2", ":", "3">>]>>],
         good,
         OkPage("Bob", 2, <<[Split |-> SkiErg, Time |-> T_0_00_07]>>)}

Init ==
    /\ urls \in SeqsUpTo(BatchUrls, MaxUrls) \ {<<>>}
    /\ hrefs = <<>>
    /\ individuals = <<>>
    /\ served = <<>>
    /\ pc = "discover"
    /\ out = NotCalled
    /\ view = NoView
    /\ page = Idle /\ record = NotCalled /\ listing = <<>>

\* hrefs.extend(get_all_hrefs(url)) for the k-th url, which serves html
Extend(k, html, got) ==
    /\ listing' = Append(listing, html)
    /\ IF got.err # ""
       THEN /\ pc' = "raised" /\ out' = got
            /\ UNCHANGED hrefs
       ELSE /\ hrefs' = hrefs \o got.val
            /\ pc' = IF k < Len(urls) THEN "discover"
                     ELSE IF hrefs \o got.val = <<>> THEN "built" ELSE "parse"
            /\ UNCHANGED out

\* for url in urls: hrefs.extend(get_all_hrefs(url)); listing holds the
\* listing pages read
Discover ==
    /\ pc = "discover"
    /\ \E html \in Htmls(MaxListed) :
           Extend(Len(listing) + 1, html, get_all_hrefs(urls[Len(listing) + 1], html))
    /\ UNCHANGED <<urls, individuals, view, page, record, served>>

\* one element of the comprehension, its URL serving p
Collect(p, got) ==
    /\ served' = Append(served, p)
    /\ IF got.err # ""
       THEN /\ pc' = "raised" /\ out' = got
            /\ UNCHANGED individuals
       ELSE /\ individuals' = Append(individuals, got.val)
            /\ pc' = IF Len(served) + 1 < Len(hrefs) THEN "parse" ELSE "built"
            /\ UNCHANGED out

\* individuals = [IndividualDetails.from_url(url) for url in hrefs], one
\* URL per step; cls(individuals=individuals) after the last
Parse ==
    /\ pc = "parse"
    /\ \E p \in BatchPages : Collect(p, from_url(p))
    /\ UNCHANGED <<urls, hrefs, view, page, record, listing>>

Next ==
    \/ Discover
    \/ Parse
    \/ DetailsGetExercises
    \/ DetailsGetRuns
    \/ DetailsGetOtherExercises

Spec == Init /\ [][Next]_vars

(***************************************************************************)
(* Claims on the batch (Spec)                                              *)
(***************************************************************************)
\* a page that fails: the fetch or extraction raises, fewer than six
\* tables, no "Split" or "Time" column, or a malformed time text
Fails(p) ==
    \/ p.status # "ok"
    \/ p.ntables < 6
    \/ ~p.has_split
    \/ ~p.has_time
    \/ \E i \in 1..Len(p.rows) : IsMalformed(p.rows[i].Time)

Usable(inds) == SelectRows(inds, [i \in 1..Len(inds) |-> inds[i] # None])

\* every item of every listing read is a link
AllLinked ==
    \A k \in 1..Len(listing) : \A i \in 1..Len(listing[k].items) :
        listing[k].items[i].a /\ listing[k].items[i].has_href

(***************************************************************************)
(* C1  Batch resilience.  When some but not all of the athlete URLs        *)
(* discovered from the links of the listings fail, Details.from_urls does  *)
(* not raise, and the Details it builds holds exactly the records of the   *)
(* URLs that succeeded, in their order.                                    *)
(***************************************************************************)
C1_BatchResilience ==
    /\ ~(/\ pc = "raised" /\ AllLinked
         /\ \E i \in 1..Len(served) : ~Fails(served[i])
         /\ \E i \in 1..Len(served) : Fails(served[i]))
    /\ (/\ pc = "built" /\ AllLinked
        /\ \E i \in 1..Len(served) : ~Fails(served[i])
        /\ \E i \in 1..Len(served) : Fails(served[i]))
       => LET good == SelectRows(served, [i \in 1..Len(served) |-> ~Fails(served[i])])
          IN  Usable(individuals) = [i \in 1..Len(good) |-> from_url(good[i]).val]

(***************************************************************************)
(* C2  Aggregation tolerates absent records.  Over a Details whose         *)
(* individuals hold None entries among usable records, each aggregate view *)
(* returns, without raising, a table of exactly the usable athletes.       *)
(***************************************************************************)
C2_ViewsTolerateNone ==
    (/\ view.call # "none" /\ AllLinked
     /\ HasNone(individuals)
     /\ Usable(individuals) # <<>>)
    => /\ view.err = ""
       /\ Len(IF view.call = "get_exercises" THEN view.val.index
              ELSE view.val.columns) = Len(Usable(individuals))
=============================================================================
